---- MODULE Spec2Model ----
(***************************************************************************)
(* Model of the local service process manager of Startup/project_manager.py *)
(* (class ProjectManager) together with the operating-system state it acts  *)
(* on: the process table, the owners of the TCP ports, and the registry     *)
(* file running_processes.json.                                             *)
(*                                                                          *)
(* Every caller (a CLI invocation, or a worker thread started by            *)
(* gui_manager.py) is a thread of the model.  A call of start_project or    *)
(* stop_project is a sequence of steps; a step boundary is placed at every  *)
(* point where the code sleeps, reads or writes the registry file, or asks  *)
(* the operating system about a PID, since other callers and the processes  *)
(* themselves can act at these points.                                      *)
(***************************************************************************)
EXTENDS Integers, Sequences, FiniteSets, TLC

\* ---------------------------------------------------------------- bounds
MaxPid == 2            \* PIDs handed out by the operating system: 1..MaxPid
MaxAttempts == 2       \* health checks of a start routine of start_both_apis.py
                       \* (20 and 30 in the code)

Threads == {"t1", "t2"}    \* concurrent callers of the manager
PIDs == 1..MaxPid
NoPid == 0
NoPort == 0
Ports == {8000, 8001}      \* the ports a caller may ask for

\* ------------------------------------------------- the service catalog
\* load_config: the entries of default_config the model uses.
default_config ==
    [ python_blueprint_api |->
        [type |-> "backend", language |-> "python", default_port |-> 8000],
      python_textract |->
        [type |-> "backend", language |-> "python", default_port |-> 8001] ]

Projects == DOMAIN default_config
PortLists == {<<>>} \cup {<<p>> : p \in Ports}

\* The calls a caller makes: <<project_name, component_type, ports>>.  Every
\* catalogued project with its own type, without a port (the default port)
\* and with the port that is not its default, and one call each with a name
\* the catalog lacks and with the wrong type.
Calls ==
    {c \in {<<n, default_config[n].type, ps>> : n \in Projects, ps \in PortLists} :
        c[3] # <<default_config[c[1]].default_port>>}
    \cup {<<"no_such_project", "backend", <<8000>> >>,
          <<"python_textract", "frontend", <<8001>> >>}

\* The port the started command really listens on.  The start_command of
\* python_blueprint_api carries "--port 8000" whatever port was asked for;
\* lambda_local.py reads the PORT variable that start_project sets.
BindPort(project_name, port) ==
    IF project_name = "python_blueprint_api" THEN 8000 ELSE port

\* process_key = f"{project_name}_{port}"
process_key(project_name, port) == project_name \o "_" \o ToString(port)

\* ------------------------------------------------------------ helpers
RECURSIVE SetToSeq(_)
\* The PIDs printed by lsof, one per line, in increasing order.
SetToSeq(S) ==
    IF S = {} THEN <<>>
    ELSE LET m == CHOOSE x \in S : \A y \in S : x <= y
         IN <<m>> \o SetToSeq(S \ {m})

\* del d[k]
Del(d, k) == [x \in DOMAIN d \ {k} |-> d[x]]
\* d[k] = v
Put(d, k, v) == [x \in DOMAIN d \cup {k} |-> IF x = k THEN v ELSE d[x]]

\* {}
EmptyDict == [x \in {} |-> NoPid]

NoCall == [action |-> "none", project_name |-> "", component_type |-> "",
           ports |-> <<>>, port |-> NoPort]

NoLast == [call |-> NoCall, result |-> "none"]

VARIABLES
    alive,           \* OS process table: the PIDs that exist
    listen,          \* listen[pid]: the port the process is bound to, or NoPort
    protected,       \* PIDs the manager's user may not signal (EPERM)
    stubborn,        \* PIDs that do not exit on SIGTERM within the grace period
    nextPid,         \* next PID the operating system hands out
    lsofInstalled,   \* whether the lsof executable can be run
    processes_file,  \* contents of running_processes.json: key -> record
    truncated,       \* running_processes.json was opened for writing and
                     \* nothing has been written to it yet: it is empty
    pc,              \* pc[t]: position of caller t in its call
    call,            \* call[t]: the call t is in
    processes,       \* processes[t]: the local dict `processes` of the call
    pids,            \* pids[t]: cleanup_port's list of PIDs still to handle
    child,           \* child[t]: PID of the subprocess.Popen of the call
    to_remove,       \* to_remove[t]: stop_project's matched keys still to handle
    success,         \* success[t]: stop_project's local `success`
    result,          \* result[t]: how the call of t returned
    report,          \* report[t]: what status showed, key -> running or not
    events,          \* history: events[t], what happened to processes during
                     \* the call: <<pid, signal>> delivered by the call,
                     \* <<pid, "exit">> for a process that ended by itself
    pre,             \* history: pre[t], the registry and processes at the call
    last,            \* history: last[t], the stop that t has just returned from
                     \* and its result
    raised,          \* history: raised[t], the keys whose handling raised in the stop
    launched,        \* the PIDs whose present process the manager spawned
    config,          \* ProjectManager.config: the catalog in memory
    config_file,     \* contents of project_config.json, or NoFile
    stalled,         \* lsof, once run, does not exit (it blocks in the kernel
                     \* on an unreachable network mount)
    probe,           \* gui_manager.check_health: the response and the dialog shown
    dual             \* start_both_apis.DualAPIManager and the position of its run

osvars == <<alive, listen, protected, stubborn, nextPid, lsofInstalled,
            launched>>
elsewhere == <<config, config_file, stalled, probe, dual>>
locals == <<pc, call, processes, pids, child, to_remove, success, result,
           report>>
vars == <<alive, listen, protected, stubborn, nextPid, lsofInstalled,
          processes_file, truncated, pc, call, processes, pids, child,
          to_remove, success, result, report, events, pre, last, raised,
          launched, config, config_file, stalled, probe, dual>>

\* psutil.pid_exists(pid)
pid_exists(pid) == pid \in alive

\* ProjectManager.load_processes: {} when the file does not exist yet.
load_processes == processes_file

\* json.load raises JSONDecodeError on a file that is empty.
Unparsable == truncated

\* save_processes, line 105: open(self.processes_file, 'w') empties the file.
SaveOpen ==
    /\ processes_file' = EmptyDict
    /\ truncated' = TRUE

\* save_processes, line 106: json.dump writes the mapping; the file is closed.
SaveDump(mapping) ==
    /\ processes_file' = mapping
    /\ truncated' = FALSE

\* The live processes lsof -ti :port reports.
lsof(port) == {p \in alive : listen[p] = port}

NoPre == [file |-> EmptyDict, alive |-> {}, onport |-> {}, again |-> FALSE]

\* A catalog without entries: nothing has been loaded yet.
NoConfig == [x \in {} |-> [type |-> "", language |-> "", default_port |-> NoPort]]

\* project_config.json does not exist.
NoFile == [exists |-> FALSE, json |-> NoConfig]

\* project_config.json holds the catalog c.
ConfigFile(c) == [exists |-> TRUE, json |-> c]

\* No health check has been asked for.
NoProbe == [status |-> 0, error |-> "none", shown |-> "none"]

\* The two APIs start_both_apis.py launches.
APIs == {"python", "csharp"}

\* DualAPIManager.__init__, lines 17-22 of start_both_apis.py: no process
\* yet; start_both_apis has not been called.
NoDual ==
    [pc |-> "idle",
     process |-> [a \in APIs |-> "none"],    \* self.python_process, self.csharp_process
     at |-> [a \in APIs |-> "idle"],         \* position of the start routine
     attempt |-> [a \in APIs |-> 0],         \* `attempt` of its waiting loop
     ret |-> [a \in APIs |-> "none"],        \* what the start routine returned
     ok |-> [a \in APIs |-> FALSE],          \* python_ok, csharp_ok
     returned |-> "none"]                    \* what start_both_apis returned

\* The processes, the registry and the callers before the first call.
InitProcesses ==
    /\ alive = {}
    /\ listen = [p \in PIDs |-> NoPort]
    /\ protected = {}
    /\ stubborn = {}
    /\ nextPid = 1
    /\ lsofInstalled \in BOOLEAN
    /\ processes_file = EmptyDict
    /\ truncated = FALSE
    /\ call = [t \in Threads |-> NoCall]
    /\ processes = [t \in Threads |-> EmptyDict]
    /\ pids = [t \in Threads |-> <<>>]
    /\ child = [t \in Threads |-> NoPid]
    /\ to_remove = [t \in Threads |-> <<>>]
    /\ success = [t \in Threads |-> TRUE]
    /\ result = [t \in Threads |-> "none"]
    /\ report = [t \in Threads |-> EmptyDict]
    /\ events = [t \in Threads |-> {}]
    /\ pre = [t \in Threads |-> NoPre]
    /\ last = [t \in Threads |-> NoLast]
    /\ raised = [t \in Threads |-> {}]
    /\ launched = {}
    /\ stalled = FALSE

\* ProjectManager.__init__ has run: the catalog is loaded and on disk.
Init ==
    /\ InitProcesses
    /\ pc = [t \in Threads |-> "idle"]
    /\ config = default_config
    /\ config_file = ConfigFile(default_config)
    /\ probe = NoProbe
    /\ dual = NoDual

\* No caller is at the moment of its return.
Quiet == \A t \in Threads : pc[t] # "done"

\* Caller t is at the given position of its call.
At(t, label) == Quiet /\ pc[t] = label

\* ------------------------------------------------- the operating system
\* The process pid ends: it leaves the process table and frees its port.
Gone(pid) ==
    /\ alive' = alive \ {pid}
    /\ listen' = [listen EXCEPT ![pid] = NoPort]
    /\ stubborn' = stubborn \ {pid}
    /\ protected' = protected \ {pid}
    /\ launched' = launched \ {pid}

\* os.kill(pid, sig) by caller t on a process that exists and may be
\* signalled: SIGKILL ends it, SIGTERM ends it unless it is stubborn.
Deliver(t, pid, sig) ==
    /\ events' = [events EXCEPT ![t] = @ \cup {<<pid, sig>>}]
    /\ IF sig = "SIGTERM" /\ pid \in stubborn
       THEN UNCHANGED <<alive, listen, stubborn, protected, launched>>
       ELSE Gone(pid)

\* os.kill raised, or was not called.
NoSignal == UNCHANGED <<alive, listen, stubborn, protected, launched, events>>

\* Something happened that no caller did: no call is any longer the
\* immediate, undisturbed repetition of the one before.
Disturbed ==
    /\ last' = [t \in Threads |-> NoLast]
    /\ pre' = [t \in Threads |-> [pre[t] EXCEPT !.again = FALSE]]

\* A process ends of its own accord (crash, normal exit, killed by someone
\* other than the manager).
ProcExit(pid) ==
    /\ Quiet
    /\ pid \in alive
    /\ Gone(pid)
    /\ Disturbed
    /\ events' = [t \in Threads |-> IF pc[t] = "idle" THEN events[t]
                                    ELSE events[t] \cup {<<pid, "exit">>}]
    /\ UNCHANGED <<nextPid, lsofInstalled, elsewhere, processes_file, truncated, raised>>
    /\ UNCHANGED locals

\* A process the manager did not start binds a free port.
ForeignBind(port, prot, stub) ==
    /\ Quiet
    /\ nextPid <= MaxPid
    /\ lsof(port) = {}
    /\ alive' = alive \cup {nextPid}
    /\ listen' = [listen EXCEPT ![nextPid] = port]
    /\ protected' = IF prot THEN protected \cup {nextPid} ELSE protected
    /\ stubborn' = IF stub THEN stubborn \cup {nextPid} ELSE stubborn
    /\ nextPid' = nextPid + 1
    /\ Disturbed
    /\ UNCHANGED <<launched, lsofInstalled, elsewhere, processes_file, truncated, events, raised>>
    /\ UNCHANGED locals

\* A further process holds a socket on a port that is in use (a worker the
\* server forked, a client connected to it): lsof -ti :port lists every
\* process with a socket on the port.
ForeignShare(port, prot, stub) ==
    /\ Quiet
    /\ nextPid <= MaxPid
    /\ lsof(port) # {}
    /\ alive' = alive \cup {nextPid}
    /\ listen' = [listen EXCEPT ![nextPid] = port]
    /\ protected' = IF prot THEN protected \cup {nextPid} ELSE protected
    /\ stubborn' = IF stub THEN stubborn \cup {nextPid} ELSE stubborn
    /\ nextPid' = nextPid + 1
    /\ Disturbed
    /\ UNCHANGED <<launched, lsofInstalled, elsewhere, processes_file, truncated, events, raised>>
    /\ UNCHANGED locals

\* --------------------------------------------------------- call / return
Idle(t) == At(t, "idle")

Goto(t, label) == pc' = [pc EXCEPT ![t] = label]

\* The call of t returns; r names the return statement (or "raised" when an
\* exception leaves the call).  pc[t] = "done" is the moment of the return:
\* the caller takes the result (Ack) before anything else happens.
Return(t, r) ==
    /\ pc' = [pc EXCEPT ![t] = "done"]
    /\ result' = [result EXCEPT ![t] = r]

\* main, lines 351-354: the caller has its result; the locals of the call
\* are gone.
Ack(t) ==
    /\ pc[t] = "done"
    /\ pc' = [pc EXCEPT ![t] = "idle"]
    /\ call' = [call EXCEPT ![t] = NoCall]
    /\ processes' = [processes EXCEPT ![t] = EmptyDict]
    /\ pids' = [pids EXCEPT ![t] = <<>>]
    /\ child' = [child EXCEPT ![t] = NoPid]
    /\ to_remove' = [to_remove EXCEPT ![t] = <<>>]
    /\ success' = [success EXCEPT ![t] = TRUE]
    /\ result' = [result EXCEPT ![t] = "none"]
    /\ report' = [report EXCEPT ![t] = EmptyDict]
    /\ events' = [events EXCEPT ![t] = {}]
    /\ pre' = [pre EXCEPT ![t] = NoPre]
    /\ raised' = [raised EXCEPT ![t] = {}]
    /\ last' = [last EXCEPT ![t] =
                    IF call[t].action = "stop"
                    THEN [call |-> call[t], result |-> result[t]]
                    ELSE NoLast]
    /\ UNCHANGED <<osvars, elsewhere>>
    /\ UNCHANGED <<processes_file, truncated>>

\* What a call finds when it is made.
Snapshot(port, again) ==
    [file |-> processes_file, alive |-> alive, onport |-> lsof(port),
     again |-> again]

\* The stop that caller t has just returned from succeeded and was a stop of
\* this project, type and port, or of every port of the project.
AfterStop(t, project_name, component_type, port) ==
    /\ last[t].result = "Stopped"
    /\ last[t].call.project_name = project_name
    /\ last[t].call.component_type = component_type
    /\ last[t].call.port \in {port, NoPort}

\* -------------------------------------------------------- start_project
\* Mutant of StartCall: the type of the catalog entry is not compared with
\* the type asked for.
StartCall_NoKindCheck(t, project_name, component_type, ports, path_exists) ==
    /\ Idle(t)
    /\ nextPid <= MaxPid
    /\ LET port == IF ports # <<>> THEN ports[1]
                   ELSE IF project_name \in DOMAIN config
                        THEN config[project_name].default_port
                        ELSE NoPort
       IN /\ call' = [call EXCEPT ![t] =
                        [action |-> "start", project_name |-> project_name,
                         component_type |-> component_type, ports |-> ports,
                         port |-> port]]
          /\ pre' = [pre EXCEPT ![t] = Snapshot(port, AfterStop(t, project_name, component_type, port))]
    /\ IF project_name \notin DOMAIN config
       THEN Return(t, "UnknownService")
       ELSE IF ~path_exists
       THEN Return(t, "PathNotFound")
       ELSE /\ Goto(t, "cleanup_port")
            /\ UNCHANGED result
    /\ last' = [u \in Threads |-> NoLast]
    /\ UNCHANGED <<osvars, elsewhere>>
    /\ UNCHANGED <<processes_file, truncated, processes, pids, child, to_remove,
                   success, events, raised, report>>

\* Mutant of StartCall: the last port of the list is taken, not the first.
StartCall_LastPort(t, project_name, component_type, ports, path_exists) ==
    /\ Idle(t)
    /\ nextPid <= MaxPid
    /\ LET port == IF ports # <<>> THEN ports[Len(ports)]
                   ELSE IF project_name \in DOMAIN config
                        THEN config[project_name].default_port
                        ELSE NoPort
       IN /\ call' = [call EXCEPT ![t] =
                        [action |-> "start", project_name |-> project_name,
                         component_type |-> component_type, ports |-> ports,
                         port |-> port]]
          /\ pre' = [pre EXCEPT ![t] = Snapshot(port, AfterStop(t, project_name, component_type, port))]
    /\ IF project_name \notin DOMAIN config
       THEN Return(t, "UnknownService")
       ELSE IF config[project_name].type # component_type
       THEN Return(t, "KindMismatch")
       ELSE IF ~path_exists
       THEN Return(t, "PathNotFound")
       ELSE /\ Goto(t, "cleanup_port")
            /\ UNCHANGED result
    /\ last' = [u \in Threads |-> NoLast]
    /\ UNCHANGED <<osvars, elsewhere>>
    /\ UNCHANGED <<processes_file, truncated, processes, pids, child, to_remove, success,
                   events, raised, report>>

\* Lines 138-156: the checks before anything is touched, then cleanup_port.
\* Calls are made while the operating system has a PID left to hand out.
StartCall(t, project_name, component_type, ports, path_exists) ==
    /\ Idle(t)
    /\ nextPid <= MaxPid
    /\ LET port == IF ports # <<>> THEN ports[1]
                   ELSE IF project_name \in DOMAIN config
                        THEN config[project_name].default_port
                        ELSE NoPort
       IN /\ call' = [call EXCEPT ![t] =
                        [action |-> "start", project_name |-> project_name,
                         component_type |-> component_type, ports |-> ports,
                         port |-> port]]
          /\ pre' = [pre EXCEPT ![t] = Snapshot(port, AfterStop(t, project_name, component_type, port))]
    /\ IF project_name \notin DOMAIN config
       THEN Return(t, "UnknownService")
       ELSE IF config[project_name].type # component_type
       THEN Return(t, "KindMismatch")
       ELSE IF ~path_exists
       THEN Return(t, "PathNotFound")
       ELSE /\ Goto(t, "cleanup_port")
            /\ UNCHANGED result
    /\ last' = [u \in Threads |-> NoLast]
    /\ UNCHANGED <<osvars, elsewhere>>
    /\ UNCHANGED <<processes_file, truncated, processes, pids, child, to_remove, success,
                   events, raised, report>>

\* cleanup_port, lines 110-116: ask lsof for the PIDs on the port.  A missing
\* lsof raises FileNotFoundError, which line 132 swallows.
CleanupLsof(t) ==
    /\ At(t, "cleanup_port")
    /\ ~stalled    \* subprocess.run waits, without a timeout, for lsof to exit
    /\ LET found == IF lsofInstalled THEN SetToSeq(lsof(call[t].port))
                    ELSE <<>>
       IN /\ pids' = [pids EXCEPT ![t] = found]
          /\ Goto(t, IF found = <<>> THEN "load" ELSE "sigterm")
    /\ UNCHANGED <<osvars, elsewhere>>
    /\ UNCHANGED <<processes_file, truncated, call, processes, child, to_remove, success,
                   result, events, pre, last, raised, report>>

\* The loop of cleanup_port moves to the next PID, or cleanup_port returns.
NextPid(t) ==
    /\ pids' = [pids EXCEPT ![t] = Tail(pids[t])]
    /\ Goto(t, IF Tail(pids[t]) = <<>> THEN "load" ELSE "sigterm")

\* cleanup_port, line 121: os.kill(pid, SIGTERM).
CleanupTerm(t) ==
    /\ At(t, "sigterm")
    /\ LET pid == Head(pids[t])
       IN IF pid \notin alive
          THEN \* ProcessLookupError, caught at line 129
               /\ NextPid(t)
               /\ NoSignal
               /\ UNCHANGED result
          ELSE IF pid \in protected
          THEN \* PermissionError: no handler in cleanup_port or start_project
               /\ Return(t, "raised")
               /\ NoSignal
               /\ UNCHANGED pids
          ELSE /\ Deliver(t, pid, "SIGTERM")
               /\ Goto(t, "sigkill")
               /\ UNCHANGED <<pids, result>>
    /\ UNCHANGED <<nextPid, lsofInstalled, elsewhere>>
    /\ UNCHANGED <<processes_file, truncated, call, processes, child, to_remove, success,
                   pre, last, raised, report>>

\* Mutant of CleanupKill: cleanup_port stops at SIGTERM and never sends
\* SIGKILL.
CleanupKill_NoSigkill(t) ==
    /\ At(t, "sigkill")
    /\ NextPid(t)
    /\ NoSignal
    /\ UNCHANGED result
    /\ UNCHANGED <<nextPid, lsofInstalled, elsewhere>>
    /\ UNCHANGED <<processes_file, truncated, call, processes, child, to_remove, success,
                   pre, last, raised, report>>

\* cleanup_port, lines 122-127: after sleep(1), os.kill(pid, SIGKILL), sent
\* whether or not the process is still there.
CleanupKill(t) ==
    /\ At(t, "sigkill")
    /\ LET pid == Head(pids[t])
       IN IF pid \notin alive
          THEN \* ProcessLookupError, caught at line 126
               /\ NextPid(t)
               /\ NoSignal
               /\ UNCHANGED result
          ELSE IF pid \in protected
          THEN /\ Return(t, "raised")
               /\ NoSignal
               /\ UNCHANGED pids
          ELSE /\ Deliver(t, pid, "SIGKILL")
               /\ NextPid(t)
               /\ UNCHANGED result
    /\ UNCHANGED <<nextPid, lsofInstalled, elsewhere>>
    /\ UNCHANGED <<processes_file, truncated, call, processes, child, to_remove, success,
                   pre, last, raised, report>>

\* Mutant of StartLoad: any record under the key counts as running, without
\* psutil.pid_exists.
StartLoad_AnyRecordIsLive(t) ==
    /\ At(t, "load")
    /\ LET loaded == load_processes
           key == process_key(call[t].project_name, call[t].port)
       IN IF Unparsable
          THEN /\ Return(t, "JSONDecodeError")
               /\ UNCHANGED processes
          ELSE /\ processes' = [processes EXCEPT ![t] = loaded]
               /\ IF key \in DOMAIN loaded
                  THEN Return(t, "AlreadyRunning")
                  ELSE Goto(t, "spawn") /\ UNCHANGED result
    /\ UNCHANGED <<osvars, elsewhere>>
    /\ UNCHANGED <<processes_file, truncated, call, pids, child, to_remove, success,
                   events, pre, last, raised, report>>

\* Lines 159-170: load the registry and look for a record under the key.
\* The load of line 159 is outside the try of line 192: JSONDecodeError
\* leaves start_project.
StartLoad(t) ==
    /\ At(t, "load")
    /\ LET loaded == load_processes
           key == process_key(call[t].project_name, call[t].port)
       IN IF Unparsable
          THEN /\ Return(t, "JSONDecodeError")
               /\ UNCHANGED processes
          ELSE IF key \in DOMAIN loaded
          THEN IF pid_exists(loaded[key].pid)
               THEN /\ processes' = [processes EXCEPT ![t] = loaded]
                    /\ Return(t, "AlreadyRunning")
               ELSE \* stale entry: del processes[process_key]
                    /\ processes' = [processes EXCEPT ![t] = Del(loaded, key)]
                    /\ Goto(t, "save_stale")
                    /\ UNCHANGED result
          ELSE /\ processes' = [processes EXCEPT ![t] = loaded]
               /\ Goto(t, "spawn")
               /\ UNCHANGED result
    /\ UNCHANGED <<osvars, elsewhere>>
    /\ UNCHANGED <<processes_file, truncated, call, pids, child, to_remove, success,
                   events, pre, last, raised, report>>

\* Line 170: save_processes(processes) after the stale entry was deleted;
\* the file is opened for writing.
StartSaveStale(t) ==
    /\ At(t, "save_stale")
    /\ SaveOpen
    /\ Goto(t, "dump_stale")
    /\ UNCHANGED <<osvars, elsewhere>>
    /\ UNCHANGED <<call, processes, pids, child, to_remove, success, result,
                   events, pre, last, raised, report>>

\* Mutant of StartDumpStale: the mapping written still holds the stale entry.
StartDumpStale_KeepsStale(t) ==
    /\ At(t, "dump_stale")
    /\ SaveDump(Put(processes[t],
                    process_key(call[t].project_name, call[t].port),
                    pre[t].file[process_key(call[t].project_name, call[t].port)]))
    /\ Goto(t, "spawn")
    /\ UNCHANGED <<osvars, elsewhere>>
    /\ UNCHANGED <<call, processes, pids, child, to_remove, success, result,
                   events, pre, last, raised, report>>

\* Line 170, continued: the mapping without the stale entry is written.
StartDumpStale(t) ==
    /\ At(t, "dump_stale")
    /\ SaveDump(processes[t])
    /\ Goto(t, "spawn")
    /\ UNCHANGED <<osvars, elsewhere>>
    /\ UNCHANGED <<call, processes, pids, child, to_remove, success, result,
                   events, pre, last, raised, report>>

\* Lines 193-214: subprocess.Popen.  The pip install of lines 181-190 before
\* it touches neither the registry nor a process and its failure is caught.
\* Popen raises when the command cannot be run or no PID is left; the
\* handler of line 244 returns False.  A child whose port is taken cannot bind
\* it and holds no port.
StartSpawn(t, popen_ok, stub) ==
    /\ At(t, "spawn")
    /\ IF popen_ok /\ nextPid <= MaxPid
       THEN LET port == BindPort(call[t].project_name, call[t].port)
            IN /\ alive' = alive \cup {nextPid}
               /\ listen' = [listen EXCEPT ![nextPid] =
                               IF lsof(port) = {} THEN port ELSE NoPort]
               /\ stubborn' = IF stub THEN stubborn \cup {nextPid} ELSE stubborn
               /\ child' = [child EXCEPT ![t] = nextPid]
               /\ launched' = launched \cup {nextPid}
               /\ nextPid' = nextPid + 1
               /\ Goto(t, "poll")
               /\ UNCHANGED result
       ELSE /\ ~stub
            /\ Return(t, "Exception")
            /\ UNCHANGED <<alive, listen, stubborn, child, nextPid, launched>>
    /\ UNCHANGED <<protected, lsofInstalled, elsewhere>>
    /\ UNCHANGED <<processes_file, truncated, call, processes, pids, to_remove, success,
                   events, pre, last, raised, report>>

\* The record start_project writes, lines 222-230 (language and
\* health_endpoint repeat the catalog; started_at is the clock).
ProcessInfo(pid, project_name, port, component_type) ==
    [pid |-> pid, project_name |-> project_name, port |-> port,
     type |-> component_type]

\* Mutant of StartPoll: the record is filed under, and names, the port the
\* child listens on instead of the port of the call.
StartPoll_KeyByBoundPort(t) ==
    /\ At(t, "poll")
    /\ IF child[t] \in alive
       THEN LET bound == BindPort(call[t].project_name, call[t].port)
                key == process_key(call[t].project_name, bound)
                info == ProcessInfo(child[t], call[t].project_name,
                                    bound, call[t].component_type)
            IN /\ processes' = [processes EXCEPT ![t] = Put(@, key, info)]
               /\ SaveOpen
               /\ Goto(t, "dump")
               /\ UNCHANGED result
       ELSE /\ Return(t, "LaunchFailed")
            /\ UNCHANGED <<processes, processes_file, truncated>>
    /\ UNCHANGED <<osvars, elsewhere>>
    /\ UNCHANGED <<call, pids, child, to_remove, success, events, pre, last,
                   raised, report>>

\* Lines 217-242: after sleep(2), process.poll(); a child still running is
\* recorded in the local mapping and save_processes opens the file.
StartPoll(t) ==
    /\ At(t, "poll")
    /\ IF child[t] \in alive
       THEN LET key == process_key(call[t].project_name, call[t].port)
                info == ProcessInfo(child[t], call[t].project_name,
                                    call[t].port, call[t].component_type)
            IN /\ processes' = [processes EXCEPT ![t] = Put(@, key, info)]
               /\ SaveOpen
               /\ Goto(t, "dump")
               /\ UNCHANGED result
       ELSE /\ Return(t, "LaunchFailed")
            /\ UNCHANGED <<processes, processes_file, truncated>>
    /\ UNCHANGED <<osvars, elsewhere>>
    /\ UNCHANGED <<call, pids, child, to_remove, success, events, pre, last,
                   raised, report>>

\* Lines 231-234: the mapping with the new record is written; return True.
StartDump(t) ==
    /\ At(t, "dump")
    /\ SaveDump(processes[t])
    /\ Return(t, "Started")
    /\ UNCHANGED <<osvars, elsewhere>>
    /\ UNCHANGED <<call, processes, pids, child, to_remove, success, events,
                   pre, last, raised, report>>

\* --------------------------------------------------------- stop_project
\* The orders in which a dict holding the keys S can be iterated.
Orders(S) ==
    {q \in [1..Cardinality(S) -> S] : \A i, j \in DOMAIN q : q[i] = q[j] => i = j}

\* Mutant of Matches: with the port omitted the project name is not compared.
Matches_BulkIgnoresName(dict, project_name, component_type, port) ==
    {k \in DOMAIN dict :
        /\ port = NoPort \/ (dict[k].project_name = project_name /\ dict[k].port = port)
        /\ dict[k].type = component_type}

\* Lines 255-259: the records stop_project matches; port = NoPort stands for
\* `port is None`.
Matches(dict, project_name, component_type, port) ==
    {k \in DOMAIN dict :
        /\ dict[k].project_name = project_name
        /\ port = NoPort \/ dict[k].port = port
        /\ dict[k].type = component_type}

\* Lines 250-265.
StopCall(t, project_name, component_type, ports) ==
    /\ Idle(t)
    /\ LET port == IF ports # <<>> THEN ports[1] ELSE NoPort
           loaded == load_processes
           matched == Matches(loaded, project_name, component_type, port)
           this == [action |-> "stop", project_name |-> project_name,
                    component_type |-> component_type, ports |-> ports,
                    port |-> port]
       IN /\ call' = [call EXCEPT ![t] = this]
          /\ pre' = [pre EXCEPT ![t] = Snapshot(port, last[t].call = this)]
          /\ processes' = [processes EXCEPT ![t] = loaded]
          /\ IF Unparsable
             THEN \* JSONDecodeError from the load of line 250
                  /\ Return(t, "JSONDecodeError")
                  /\ UNCHANGED to_remove
             ELSE IF matched = {}
             THEN /\ Return(t, "NotFound")
                  /\ UNCHANGED to_remove
             ELSE /\ \E q \in Orders(matched) :
                        to_remove' = [to_remove EXCEPT ![t] = q]
                  /\ Goto(t, "stop_check")
                  /\ UNCHANGED result
    /\ last' = [u \in Threads |-> NoLast]
    /\ UNCHANGED <<osvars, elsewhere>>
    /\ UNCHANGED <<processes_file, truncated, pids, child, success, events, raised, report>>

\* The loop of stop_project moves to the next matched record, or to the save.
NextEntry(t) ==
    /\ to_remove' = [to_remove EXCEPT ![t] = Tail(to_remove[t])]
    /\ Goto(t, IF Tail(to_remove[t]) = <<>> THEN "stop_save" ELSE "stop_check")

\* Line 279: del processes[process_key]
Forget(t) == processes' = [processes EXCEPT ![t] = Del(@, Head(to_remove[t]))]

\* Mutant of Failed: the handler sits outside the loop, so the first error
\* ends the loop and the remaining matched records are not handled.
Failed_AbortsLoop(t) ==
    /\ success' = [success EXCEPT ![t] = FALSE]
    /\ raised' = [raised EXCEPT ![t] = @ \cup {Head(to_remove[t])}]
    /\ to_remove' = [to_remove EXCEPT ![t] = <<>>]
    /\ Goto(t, "stop_save")
    /\ UNCHANGED processes

\* Lines 282-284: the handler of the loop body; the record is kept.
Failed(t) ==
    /\ success' = [success EXCEPT ![t] = FALSE]
    /\ raised' = [raised EXCEPT ![t] = @ \cup {Head(to_remove[t])}]
    /\ NextEntry(t)
    /\ UNCHANGED processes

StopPid(t) == processes[t][Head(to_remove[t])].pid

\* Mutant of StopCheck: a record whose process exists is passed over, its
\* process is not signalled and its record is kept.
StopCheck_SkipsLive(t) ==
    /\ At(t, "stop_check")
    /\ IF pid_exists(StopPid(t))
       THEN /\ NextEntry(t)
            /\ UNCHANGED processes
       ELSE /\ Forget(t)
            /\ NextEntry(t)
    /\ UNCHANGED <<osvars, elsewhere>>
    /\ UNCHANGED <<processes_file, truncated, call, pids, child, success, result,
                   events, pre, last, raised, report>>

\* Mutant of StopCheck: a record without a process is left in the mapping.
StopCheck_KeepsStale(t) ==
    /\ At(t, "stop_check")
    /\ IF pid_exists(StopPid(t))
       THEN /\ Goto(t, "stop_term")
            /\ UNCHANGED <<processes, to_remove>>
       ELSE /\ NextEntry(t)
            /\ UNCHANGED processes
    /\ UNCHANGED <<osvars, elsewhere>>
    /\ UNCHANGED <<processes_file, truncated, call, pids, child, success, result,
                   events, pre, last, raised, report>>

\* Line 269: if psutil.pid_exists(pid); a record without a process is deleted.
StopCheck(t) ==
    /\ At(t, "stop_check")
    /\ IF pid_exists(StopPid(t))
       THEN /\ Goto(t, "stop_term")
            /\ UNCHANGED <<processes, to_remove>>
       ELSE /\ Forget(t)
            /\ NextEntry(t)
    /\ UNCHANGED <<osvars, elsewhere>>
    /\ UNCHANGED <<processes_file, truncated, call, pids, child, success, result, events,
                   pre, last, raised, report>>

\* Line 271: os.kill(pid, signal.SIGTERM)
StopTerm(t) ==
    /\ At(t, "stop_term")
    /\ LET pid == StopPid(t)
       IN IF pid \notin alive \/ pid \in protected
          THEN \* ProcessLookupError or PermissionError
               /\ Failed(t)
               /\ NoSignal
          ELSE /\ Deliver(t, pid, "SIGTERM")
               /\ Goto(t, "stop_recheck")
               /\ UNCHANGED <<processes, to_remove, success, raised>>
    /\ UNCHANGED <<nextPid, lsofInstalled, elsewhere>>
    /\ UNCHANGED <<processes_file, truncated, call, pids, child, result, pre, last, report>>

\* Mutant of StopRecheck: the record is deleted after the grace period
\* without looking whether the process is still there, so no SIGKILL follows.
StopRecheck_NoForceKill(t) ==
    /\ At(t, "stop_recheck")
    /\ Forget(t)
    /\ NextEntry(t)
    /\ UNCHANGED <<osvars, elsewhere>>
    /\ UNCHANGED <<processes_file, truncated, call, pids, child, success, result, events,
                   pre, last, raised, report>>

\* Lines 272-275: after sleep(2), if psutil.pid_exists(pid).
StopRecheck(t) ==
    /\ At(t, "stop_recheck")
    /\ IF pid_exists(StopPid(t))
       THEN /\ Goto(t, "stop_kill")
            /\ UNCHANGED <<processes, to_remove>>
       ELSE /\ Forget(t)
            /\ NextEntry(t)
    /\ UNCHANGED <<osvars, elsewhere>>
    /\ UNCHANGED <<processes_file, truncated, call, pids, child, success, result, events,
                   pre, last, raised, report>>

\* Lines 276-279: os.kill(pid, signal.SIGKILL), sleep(1), del.
StopKill(t) ==
    /\ At(t, "stop_kill")
    /\ LET pid == StopPid(t)
       IN IF pid \notin alive \/ pid \in protected
          THEN /\ Failed(t)
               /\ NoSignal
          ELSE /\ Deliver(t, pid, "SIGKILL")
               /\ Forget(t)
               /\ NextEntry(t)
               /\ UNCHANGED <<success, raised>>
    /\ UNCHANGED <<nextPid, lsofInstalled, elsewhere>>
    /\ UNCHANGED <<processes_file, truncated, call, pids, child, result, pre, last, report>>

\* Line 286: save_processes(processes) opens the file for writing.
StopSave(t) ==
    /\ At(t, "stop_save")
    /\ SaveOpen
    /\ Goto(t, "stop_dump")
    /\ UNCHANGED <<osvars, elsewhere>>
    /\ UNCHANGED <<call, processes, pids, child, to_remove, success, result,
                   events, pre, last, raised, report>>

\* Lines 286-287: the remaining mapping is written; return success.
StopDump(t) ==
    /\ At(t, "stop_dump")
    /\ SaveDump(processes[t])
    /\ Return(t, IF success[t] THEN "Stopped" ELSE "StopFailed")
    /\ UNCHANGED <<osvars, elsewhere>>
    /\ UNCHANGED <<call, processes, pids, child, to_remove, success, events,
                   pre, last, raised, report>>

\* ----------------------------------------------------------------- status
\* Mutant of status: the records whose PID does not exist are dropped from
\* the registry file while the status is shown.
status_PrunesStale(t) ==
    /\ Idle(t)
    /\ call' = [call EXCEPT ![t] = [NoCall EXCEPT !.action = "status"]]
    /\ pre' = [pre EXCEPT ![t] = Snapshot(NoPort, FALSE)]
    /\ IF Unparsable
       THEN /\ Return(t, "JSONDecodeError")
            /\ UNCHANGED <<processes, report, processes_file>>
       ELSE LET loaded == load_processes
                live == {k \in DOMAIN loaded : pid_exists(loaded[k].pid)}
            IN /\ processes' = [processes EXCEPT ![t] = loaded]
               /\ report' = [report EXCEPT ![t] =
                               [k \in DOMAIN loaded |-> k \in live]]
               /\ processes_file' = [k \in live |-> loaded[k]]
               /\ Return(t, "Status")
    /\ UNCHANGED <<osvars, elsewhere>>
    /\ UNCHANGED <<truncated, pids, child, to_remove, success, events, last,
                   raised>>

\* ProjectManager.status, lines 302-322, and the view the GUI refreshes,
\* gui_manager.py lines 275-295: load the registry and show every record as
\* running or stopped by psutil.pid_exists.  The load has no handler:
\* JSONDecodeError leaves the call.
status(t) ==
    /\ Idle(t)
    /\ call' = [call EXCEPT ![t] = [NoCall EXCEPT !.action = "status"]]
    /\ pre' = [pre EXCEPT ![t] = Snapshot(NoPort, FALSE)]
    /\ IF Unparsable
       THEN /\ Return(t, "JSONDecodeError")
            /\ UNCHANGED <<processes, report>>
       ELSE LET loaded == load_processes
            IN /\ processes' = [processes EXCEPT ![t] = loaded]
               /\ report' = [report EXCEPT ![t] =
                               [k \in DOMAIN loaded |-> pid_exists(loaded[k].pid)]]
               /\ Return(t, "Status")
    /\ UNCHANGED <<osvars, elsewhere>>
    /\ UNCHANGED <<processes_file, truncated, pids, child, to_remove, success,
                   events, last, raised>>

\* ------------------------------------------- cleanup_ports.py: cleanup_port
\* The function returns after the PID in hand; the PIDs after it in the list
\* are not looked at.
ReturnTrue(t) ==
    /\ Return(t, "True")
    /\ UNCHANGED pids

\* `pass` at line 36: the loop goes on with the next PID; after the last one
\* the function ends without a return statement and its value is None.
NextOrNone(t) ==
    /\ pids' = [pids EXCEPT ![t] = Tail(pids[t])]
    /\ IF Tail(pids[t]) = <<>>
       THEN Return(t, "None")
       ELSE Goto(t, "util_sigterm") /\ UNCHANGED result

\* cleanup_ports.py lines 13-21 and 37-43: lsof -ti :port.  No lsof, or no
\* PID on the port: return False.
UtilLsof(t, port) ==
    /\ Idle(t)
    /\ call' = [call EXCEPT ![t] =
                  [NoCall EXCEPT !.action = "cleanup", !.port = port]]
    /\ pre' = [pre EXCEPT ![t] = Snapshot(port, FALSE)]
    /\ LET found == IF lsofInstalled THEN SetToSeq(lsof(port)) ELSE <<>>
       IN /\ pids' = [pids EXCEPT ![t] = found]
          /\ IF found = <<>>
             THEN Return(t, "False")
             ELSE Goto(t, "util_sigterm") /\ UNCHANGED result
    /\ last' = [u \in Threads |-> NoLast]
    /\ UNCHANGED <<osvars, elsewhere>>
    /\ UNCHANGED <<processes_file, truncated, processes, child, to_remove,
                   success, report, events, raised>>

\* cleanup_ports.py line 26: os.kill(int(pid), signal.SIGTERM).
UtilTerm(t) ==
    /\ At(t, "util_sigterm")
    /\ LET pid == Head(pids[t])
       IN IF pid \notin alive
          THEN \* ProcessLookupError, caught at line 35
               /\ NextOrNone(t)
               /\ NoSignal
          ELSE IF pid \in protected
          THEN \* PermissionError: no handler
               /\ Return(t, "raised")
               /\ NoSignal
               /\ UNCHANGED pids
          ELSE /\ Deliver(t, pid, "SIGTERM")
               /\ Goto(t, "util_sigkill")
               /\ UNCHANGED <<pids, result>>
    /\ UNCHANGED <<nextPid, lsofInstalled, elsewhere>>
    /\ UNCHANGED <<processes_file, truncated, call, processes, child, to_remove,
                   success, report, pre, last, raised>>

\* cleanup_ports.py lines 27-34: after sleep(1), os.kill(int(pid),
\* signal.SIGKILL), then return True.
UtilKill(t) ==
    /\ At(t, "util_sigkill")
    /\ LET pid == Head(pids[t])
       IN IF pid \notin alive
          THEN \* ProcessLookupError, caught at line 31
               /\ ReturnTrue(t)
               /\ NoSignal
          ELSE IF pid \in protected
          THEN /\ Return(t, "raised")
               /\ NoSignal
               /\ UNCHANGED pids
          ELSE /\ Deliver(t, pid, "SIGKILL")
               /\ ReturnTrue(t)
    /\ UNCHANGED <<nextPid, lsofInstalled, elsewhere>>
    /\ UNCHANGED <<processes_file, truncated, call, processes, child, to_remove,
                   success, report, pre, last, raised>>

\* ------------------------------------------------------- specifications
\* The steps of start_project for caller t; the calls are drawn from C and
\* the project directory exists or not as E allows.
Start(t, C, E) ==
    \/ \E c \in C, path_exists \in E :
          StartCall(t, c[1], c[2], c[3], path_exists)
    \/ CleanupLsof(t)
    \/ CleanupTerm(t)
    \/ CleanupKill(t)
    \/ StartLoad(t)
    \/ StartSaveStale(t)
    \/ StartDumpStale(t)
    \/ \E ok \in BOOLEAN, stub \in BOOLEAN : StartSpawn(t, ok, stub)
    \/ StartPoll(t)
    \/ StartDump(t)

\* The steps of stop_project for caller t.
Stop(t, C) ==
    \/ \E c \in C : StopCall(t, c[1], c[2], c[3])
    \/ StopCheck(t)
    \/ StopTerm(t)
    \/ StopRecheck(t)
    \/ StopKill(t)
    \/ StopSave(t)
    \/ StopDump(t)

\* Processes end and foreign processes appear; whether a process that may
\* not be signalled would exit on SIGTERM makes no difference.
Environment ==
    \/ \E pid \in PIDs : ProcExit(pid)
    \/ \E port \in Ports, prot \in BOOLEAN, stub \in BOOLEAN :
          ~(prot /\ stub) /\ ForeignBind(port, prot, stub)

\* The steps of cleanup_ports.cleanup_port for caller t.
Util(t) ==
    \/ \E port \in Ports : UtilLsof(t, port)
    \/ UtilTerm(t)
    \/ UtilKill(t)

\* One caller at a time: the command line, one call after the other.
Main == "t1"

Next ==
    \/ Start(Main, Calls, BOOLEAN)
    \/ Stop(Main, Calls)
    \/ Environment
    \/ Ack(Main)

Spec == Init /\ [][Next]_vars

\* Two callers at once (two command lines, or two worker threads of the GUI),
\* each starting catalogued projects on ports it names.
ConcCalls == {<<"python_textract", "backend", <<p>> >> : p \in Ports}

ConcNext ==
    \/ \E t \in Threads : Start(t, ConcCalls, {TRUE})
    \/ \E t \in Threads : Ack(t)

ConcSpec == Init /\ [][ConcNext]_vars

\* The GUI: start_project runs in a worker thread (gui_manager.py lines
\* 400-408) while the main thread refreshes the view whenever the timer of
\* update_status_loop fires; registered processes may end at any time.
Worker == "t1"
Tk == "t2"
GuiCalls == {<<"python_textract", "backend", <<8001>> >>}

GuiNext ==
    \/ Start(Worker, GuiCalls, {TRUE})
    \/ Ack(Worker)
    \/ status(Tk)
    \/ Ack(Tk)
    \/ \E pid \in PIDs : ProcExit(pid)

\* The timer fires every 10 seconds for as long as the GUI runs, and a call
\* that has begun runs to its return: neither thread waits for the other for
\* ever.
GuiSpec ==
    /\ Init
    /\ [][GuiNext]_vars
    /\ SF_vars(status(Tk) \/ Ack(Tk))
    /\ SF_vars(pc[Worker] # "idle" /\ (Start(Worker, GuiCalls, {TRUE}) \/ Ack(Worker)))

\* The port cleanup utility, cleanup_ports.py, run from the command line
\* while processes come and go on the ports.
UtilNext ==
    \/ Util(Main)
    \/ Ack(Main)
    \/ Environment
    \/ \E port \in Ports, prot \in BOOLEAN, stub \in BOOLEAN :
          ~(prot /\ stub) /\ ForeignShare(port, prot, stub)

UtilSpec == Init /\ [][UtilNext]_vars

\* ------------------------------------------------------------- properties
\* The registry key of the start call of t.
CallKey(t) == process_key(call[t].project_name, call[t].port)

\* t is at the return of a start_project / stop_project call.
StartReturns(t) == pc[t] = "done" /\ call[t].action = "start"
StopReturns(t) == pc[t] = "done" /\ call[t].action = "stop"

\* The start call of t got past the checks of lines 138-153.
Validated(t) == result[t] \notin {"UnknownService", "KindMismatch", "PathNotFound"}

\* When the start call of t was made, the registry held a record under the
\* call's key and the record's process existed / did not exist.
HadLive(t) ==
    /\ CallKey(t) \in DOMAIN pre[t].file
    /\ pre[t].file[CallKey(t)].pid \in pre[t].alive
HadStale(t) ==
    /\ CallKey(t) \in DOMAIN pre[t].file
    /\ pre[t].file[CallKey(t)].pid \notin pre[t].alive

\* The records the stop call of t matched when it was made.
Matched(t) ==
    Matches(pre[t].file, call[t].project_name, call[t].component_type,
            call[t].port)

\* C1 (as claimed): a start made while the registry holds a record of a live
\* process under the same key returns AlreadyRunning, spawns nothing and
\* leaves that process running, unless the process ended by itself meanwhile.
\* (Calls that an exception leaves are the matter of C6 and not counted here.)
C1_NoDuplicateBind ==
    \A t \in Threads :
        (StartReturns(t) /\ Validated(t) /\ result[t] # "raised" /\ HadLive(t)) =>
            LET first == pre[t].file[CallKey(t)].pid
            IN \/ <<first, "exit">> \in events[t]
               \/ /\ result[t] = "AlreadyRunning"
                  /\ first \in alive
                  /\ child[t] = NoPid

\* C6 (as claimed): no exception leaves start_project, whatever happens in
\* the port reconciliation.
C6_StartNeverRaises ==
    \A t \in Threads : StartReturns(t) => result[t] # "raised"

\* C10 (as claimed): the registry never holds two records with the same port
\* whose processes both exist.
C10_OneInstancePerPort ==
    \A k1, k2 \in DOMAIN processes_file :
        (/\ k1 # k2
         /\ processes_file[k1].port = processes_file[k2].port
         /\ processes_file[k1].pid \in alive)
        => processes_file[k2].pid \notin alive

\* C3: when stop_project returns True, every record it matched whose process
\* existed at the call is out of the registry and its process no longer
\* exists, whether SIGTERM ended it or SIGKILL had to.
C3_StopPostcondition ==
    \A t \in Threads :
        (StopReturns(t) /\ result[t] = "Stopped") =>
            \A k \in Matched(t) :
                pre[t].file[k].pid \in pre[t].alive =>
                    /\ k \notin DOMAIN processes_file
                    /\ pre[t].file[k].pid \notin alive

\* C3 witness: a stop returned True after it had to force-kill a process
\* that survived SIGTERM.
C3_Witness ==
    \E t \in Threads :
        /\ StopReturns(t) /\ result[t] = "Stopped"
        /\ \E k \in Matched(t) :
              /\ pre[t].file[k].pid \in pre[t].alive
              /\ <<pre[t].file[k].pid, "SIGKILL">> \in events[t]

\* C4: a start made while the registry holds, under the call's key, a record
\* whose process does not exist is not answered AlreadyRunning; once the call
\* is past the registry check the old record is gone, a child that is still
\* running at the startup check makes the call return True, and then the key
\* maps to the record of that child.
C4_StaleReclaimed ==
    \A t \in Threads :
        (StartReturns(t) /\ HadStale(t)) =>
            /\ result[t] # "AlreadyRunning"
            /\ result[t] \in {"Started", "LaunchFailed", "Exception"} =>
                  \/ CallKey(t) \notin DOMAIN processes_file
                  \/ processes_file[CallKey(t)].pid # pre[t].file[CallKey(t)].pid
            /\ (child[t] # NoPid /\ child[t] \in alive) => result[t] = "Started"
            /\ result[t] = "Started" =>
                  /\ CallKey(t) \in DOMAIN processes_file
                  /\ processes_file[CallKey(t)].pid = child[t]
                  /\ child[t] # pre[t].file[CallKey(t)].pid

\* C4 witness: a start over a stale record returned True.
C4_Witness ==
    \E t \in Threads :
        StartReturns(t) /\ HadStale(t) /\ result[t] = "Started"

\* The processes on the call's port when the start call of t was made that
\* no registry record named: foreign processes.
ForeignOnPort(t) ==
    {p \in pre[t].onport :
        \A k \in DOMAIN pre[t].file : pre[t].file[k].pid # p}

\* The start call of t has got past cleanup_port.
PastCleanup(t) ==
    /\ call[t].action = "start"
    /\ \/ pc[t] \in {"load", "save_stale", "dump_stale", "spawn", "poll", "dump"}
       \/ pc[t] = "done" /\ result[t] \in {"AlreadyRunning", "Started",
                                          "LaunchFailed", "Exception"}

\* C5 (as claimed): when a foreign process held the port at the call and the
\* call went on to spawn its child, the foreign process was sent a
\* termination signal and the start returned True.
C5_ForeignTerminatedThenSuccess ==
    \A t \in Threads :
        (StartReturns(t) /\ child[t] # NoPid /\ ForeignOnPort(t) # {}) =>
            /\ \A p \in ForeignOnPort(t) : <<p, "SIGTERM">> \in events[t]
            /\ result[t] = "Started"

\* C5 (amended): with lsof installed, once a start is past cleanup_port every
\* foreign process that held the port at the call has been sent SIGTERM by
\* the call or has ended by itself, and exists no longer; and the start
\* returns True exactly when its child is still running at the startup check:
\* a child that exists at the return made the call return True, a call that
\* returned False has no child left, and the child of a call that returned
\* True exists unless it ended by itself after the check.
C5_ForeignGoneBeforeSpawn ==
    \A t \in Threads :
        /\ (lsofInstalled /\ PastCleanup(t)) =>
              \A p \in ForeignOnPort(t) :
                  /\ p \notin alive
                  /\ <<p, "SIGTERM">> \in events[t] \/ <<p, "exit">> \in events[t]
        /\ (StartReturns(t) /\ child[t] # NoPid) =>
              /\ result[t] \in {"Started", "LaunchFailed"}
              /\ child[t] \in alive => result[t] = "Started"
              /\ result[t] = "LaunchFailed" => child[t] \notin alive
              /\ result[t] = "Started" =>
                    child[t] \in alive \/ <<child[t], "exit">> \in events[t]

\* C5 witness: a start that found a foreign process on its port signalled
\* it, spawned its child and returned True.
C5_Witness ==
    \E t \in Threads :
        /\ StartReturns(t) /\ result[t] = "Started"
        /\ \E p \in ForeignOnPort(t) :
              <<p, "SIGTERM">> \in events[t] /\ p < child[t]

\* C7: when the handling of a matched record raises, stop_project still
\* handles every other matched record, removes from the registry exactly the
\* matched records whose handling did not raise, keeps the others and every
\* record it did not match as they were, and returns False.
C7_PartialStop ==
    \A t \in Threads :
        (StopReturns(t) /\ raised[t] # {}) =>
            /\ result[t] = "StopFailed"
            /\ raised[t] \subseteq Matched(t)
            /\ DOMAIN processes_file = DOMAIN pre[t].file \ (Matched(t) \ raised[t])
            /\ \A k \in DOMAIN processes_file : processes_file[k] = pre[t].file[k]

\* C7 witness: a stop matched two records, the handling of one raised and
\* the other was removed.
C7_Witness ==
    \E t \in Threads :
        /\ StopReturns(t) /\ result[t] = "StopFailed"
        /\ Cardinality(Matched(t)) >= 2
        /\ raised[t] # {}
        /\ raised[t] # Matched(t)

\* C8 (as claimed): a stop that matches no record returns NotFound and leaves
\* the registry and every process as they were; and a stop that repeats, with
\* nothing happening in between, the stop just before it changes neither.
C8_IdempotentStop ==
    \A t \in Threads :
        StopReturns(t) =>
            /\ result[t] = "NotFound" <=> Matched(t) = {}
            /\ (result[t] = "NotFound" \/ pre[t].again) =>
                  /\ processes_file = pre[t].file
                  /\ alive = pre[t].alive
                  /\ events[t] = {}

\* C9 (as claimed): a matched record whose process ends by itself while
\* stop_project handles it is handled without error: it is removed from the
\* registry and does not make the stop fail.
C9_StopToleratesVanishing ==
    \A t \in Threads :
        StopReturns(t) =>
            \A k \in Matched(t) :
                <<pre[t].file[k].pid, "exit">> \in events[t] =>
                    /\ k \notin raised[t]
                    /\ k \notin DOMAIN processes_file

\* C2 (as claimed): starts running at once lose no registry update: the
\* mapping that a successful start saves holds every record the registry
\* holds when the save begins, so the record another start has just written
\* is still there when both have returned.
C2_NoLostUpdate ==
    [][\A t \in Threads :
          (pc[t] = "poll" /\ pc'[t] = "dump") =>
              \A k \in DOMAIN processes_file :
                  k # CallKey(t) => k \in DOMAIN processes'[t]]_vars

\* ------------------------------------------------ properties, continued
\* The registry keys the calls of the model can write.
Keys == {process_key(n, p) : n \in Projects, p \in Ports}

Signals == {"SIGTERM", "SIGKILL"}

\* The registry file holds under k a record whose process no longer exists.
Stale(k) ==
    /\ ~truncated
    /\ k \in DOMAIN processes_file
    /\ ~pid_exists(processes_file[k].pid)

\* The registry file is whole and holds no record under k.
Absent(k) == ~truncated /\ k \notin DOMAIN processes_file

\* t is at the return of a status call / of cleanup_ports.cleanup_port.
StatusReturns(t) == pc[t] = "done" /\ call[t].action = "status"
UtilReturns(t) == pc[t] = "done" /\ call[t].action = "cleanup"

\* The call of t sent a signal to pid.
Signalled(t, pid) == \E sig \in Signals : <<pid, sig>> \in events[t]

\* C11 (as claimed): a record whose process has died is in the end removed
\* from the registry, with the status refresh running for ever and no start
\* or stop called for its key.
C11_DeadRecordPruned ==
    \A k \in Keys : Stale(k) ~> Absent(k)

\* C12: a status call changes neither the registry file nor any process: the
\* file and its contents, the process table and the port owners are after the
\* call what they were before, and no signal is sent, stale records or not.
C12_StatusReadOnly ==
    [][\A t \in Threads :
          (pc[t] = "idle" /\ call'[t].action = "status") =>
              /\ processes_file' = processes_file
              /\ truncated' = truncated
              /\ alive' = alive
              /\ listen' = listen
              /\ events' = events]_vars

\* C12 witness: a status call has returned that showed a record as stopped
\* while the registry still holds that record.
C12_Witness ==
    \E t \in Threads :
        /\ StatusReturns(t) /\ result[t] = "Status"
        /\ \E k \in DOMAIN report[t] : ~report[t][k] /\ Stale(k)

\* C13 (as claimed): no load of the registry fails or finds the file empty
\* because a save is under way.
C13_LoadNeverFails ==
    \A t \in Threads : pc[t] = "done" => result[t] # "JSONDecodeError"

\* The type asked for by the start call of t is the type of the catalog entry.
KindMatches(t) ==
    default_config[call[t].project_name].type = call[t].component_type

\* C14: start_project answers an unknown name with UnknownService, a known
\* name of another type with KindMismatch, and only then looks for the
\* directory; a start that ends at one of these checks has sent no signal,
\* spawned no child and left the registry file and the process table as
\* they were.
C14_ValidationNoSideEffects ==
    \A t \in Threads :
        StartReturns(t) =>
            /\ result[t] = "UnknownService" <=> call[t].project_name \notin Projects
            /\ result[t] = "KindMismatch" <=>
                  (call[t].project_name \in Projects /\ ~KindMatches(t))
            /\ ~Validated(t) =>
                  /\ events[t] = {}
                  /\ child[t] = NoPid
                  /\ pids[t] = <<>>
                  /\ alive = pre[t].alive
                  /\ ~truncated
                  /\ processes_file = pre[t].file

\* C14 witness: a start ended at the directory check while the registry held
\* the record of a running process.
C14_Witness ==
    \E t \in Threads :
        /\ StartReturns(t) /\ result[t] = "PathNotFound"
        /\ \E k \in DOMAIN processes_file : pid_exists(processes_file[k].pid)

\* C15: a start whose child is gone at the startup check, or whose Popen
\* raises, returns False, and the registry then holds no record under the
\* key of the call, a stale record found under it included.
C15_FailedLaunchNoRecord ==
    \A t \in Threads :
        StartReturns(t) =>
            /\ (child[t] # NoPid /\ result[t] # "Started") =>
                  result[t] = "LaunchFailed" /\ child[t] \notin alive
            /\ (PastCleanup(t) /\ child[t] = NoPid) =>
                  result[t] \in {"AlreadyRunning", "Exception"}
            /\ result[t] \in {"LaunchFailed", "Exception"} => Absent(CallKey(t))

\* C15 witness: a start over a stale record returned False because its child
\* was gone at the startup check.
C15_Witness ==
    \E t \in Threads :
        StartReturns(t) /\ HadStale(t) /\ result[t] = "LaunchFailed"

\* C16: when start_project returns True the registry holds, under the key
\* "<project_name>_<port>", the record of the child the call spawned, with the
\* name, port and type of the call; and the save that writes it begins only
\* when the child exists at the startup check.
C16_StartRecordsChild ==
    /\ [](\A t \in Threads :
            (StartReturns(t) /\ result[t] = "Started") =>
                LET key == call[t].project_name \o "_" \o ToString(call[t].port)
                IN /\ child[t] # NoPid
                   /\ ~truncated
                   /\ key \in DOMAIN processes_file
                   /\ processes_file[key].pid = child[t]
                   /\ processes_file[key].project_name = call[t].project_name
                   /\ processes_file[key].port = call[t].port
                   /\ processes_file[key].type = call[t].component_type)
    /\ [][\A t \in Threads :
            (pc[t] = "poll" /\ pc'[t] = "dump") => child[t] \in alive]_vars

\* C16 witness: a start of python_blueprint_api asked for on port 8001
\* returned True.
C16_Witness ==
    \E t \in Threads :
        /\ StartReturns(t) /\ result[t] = "Started"
        /\ call[t].project_name = "python_blueprint_api"
        /\ call[t].port = 8001

\* The records the stop call of t matched whose process did not exist when
\* the call was made.
StaleMatched(t) == {k \in Matched(t) : pre[t].file[k].pid \notin pre[t].alive}

\* C17: stop_project removes every matched record whose process does not
\* exist, sends that PID no signal and does not count it as a failure; a stop
\* that matched only such records returns True.
C17_StopCleansStale ==
    \A t \in Threads :
        StopReturns(t) =>
            /\ \A k \in StaleMatched(t) :
                  /\ Absent(k)
                  /\ ~Signalled(t, pre[t].file[k].pid)
                  /\ k \notin raised[t]
            /\ (StaleMatched(t) # {} /\ StaleMatched(t) = Matched(t)) =>
                  result[t] = "Stopped"

\* C17 witness: a stop that matched a record without a process returned True.
C17_Witness ==
    \E t \in Threads :
        StopReturns(t) /\ result[t] = "Stopped" /\ StaleMatched(t) # {}

\* The records of the registry, as the stop call of t found it, that carry
\* the project name and type of the call.
SameService(t) ==
    {k \in DOMAIN pre[t].file :
        /\ pre[t].file[k].project_name = call[t].project_name
        /\ pre[t].file[k].type = call[t].component_type}

Found(t) == IF lsofInstalled THEN pre[t].onport ELSE {}

\* C19 (as claimed): when cleanup_port returns, every PID that lsof reported
\* on the port has been sent SIGTERM, unless it had ended by itself, and
\* SIGKILL went only to a PID that had been sent SIGTERM before.  (Calls that
\* an exception leaves are not counted here.)
C19_EveryOwnerSignalled ==
    \A t \in Threads :
        (UtilReturns(t) /\ result[t] # "raised") =>
            \A p \in Found(t) :
                /\ <<p, "SIGTERM">> \in events[t] \/ <<p, "exit">> \in events[t]
                /\ <<p, "SIGKILL">> \in events[t] => <<p, "SIGTERM">> \in events[t]

\* C20 (as claimed): cleanup_port returns True when lsof reported a PID on
\* the port, whether the PID was still there to be signalled or not, and
\* False when it reported none; with none it does not raise.
C20_ReconcileResult ==
    \A t \in Threads :
        UtilReturns(t) =>
            /\ Found(t) = {} => result[t] = "False"
            /\ (Found(t) # {} /\ result[t] # "raised") => result[t] = "True"

\* =================================================== gui_manager.check_health
\* Everything of the process manager: the health check dialog, the catalog
\* and the dual launcher leave it alone.
manager == <<osvars, locals, processes_file, truncated, events, pre, last, raised>>

\* The status codes an HTTP response can carry.
StatusCodes == 100..599

\* requests.get(health_url, timeout=5) raises these when nothing listens on
\* the port or no answer comes within five seconds.
RequestErrors == {"ConnectionError", "Timeout"}

\* health_thread, lines 441-449: the dialog shown for the outcome of
\* requests.get.  Only status_code == 200 gets the "Service is healthy"
\* dialog; `except Exception` turns every exception into the error dialog.
health_thread(status_code, error) ==
    IF error # "none" THEN "showerror"
    ELSE IF status_code = 200 THEN "showinfo"
    ELSE "showwarning"

\* check_health: the GET has the given outcome; the dialog opens.
check_health(status_code, error) ==
    /\ probe.shown = "none"
    /\ probe' = [status |-> status_code, error |-> error,
                 shown |-> health_thread(status_code, error)]
    /\ UNCHANGED <<manager, config, config_file, stalled, dual>>

\* The user closes the dialog.
Dismiss ==
    /\ probe.shown # "none"
    /\ probe' = NoProbe
    /\ UNCHANGED <<manager, config, config_file, stalled, dual>>

ProbeNext ==
    \/ \E status_code \in StatusCodes : check_health(status_code, "none")
    \/ \E error \in RequestErrors : check_health(0, error)
    \/ Dismiss

\* Health checks against a service that answers anything or nothing.
ProbeSpec == Init /\ [][ProbeNext]_vars

\* C21 -- health probe classification: the probe reports healthy exactly when
\* the GET yields a 2xx status; a non-2xx status, a refused connection and a
\* timeout are reported unhealthy (a warning or an error dialog), and no
\* outcome leaves the probe as an exception.
C21_ProbeClassification ==
    probe.shown # "none" =>
        /\ probe.shown \in {"showinfo", "showwarning", "showerror"}
        /\ probe.shown = "showinfo" <=>
              (probe.error = "none" /\ probe.status \in 200..299)

Stall ==
    /\ ~stalled
    /\ stalled' = TRUE
    /\ UNCHANGED <<manager, config, config_file, probe, dual>>

\* The GUI as in GuiSpec, its worker thread starting and stopping a project
\* (gui_manager.py lines 400-408 and 411-421), on a machine where lsof may
\* stop answering.
BlockNext ==
    \/ Start(Worker, GuiCalls, {TRUE})
    \/ Stop(Worker, GuiCalls)
    \/ Ack(Worker)
    \/ status(Tk)
    \/ Ack(Tk)
    \/ \E pid \in PIDs : ProcExit(pid)
    \/ Stall

\* The fairness of GuiSpec: the timer keeps firing, and the worker thread
\* takes every step of its call that it can take.
BlockSpec ==
    /\ Init
    /\ [][BlockNext]_vars
    /\ SF_vars(status(Tk) \/ Ack(Tk))
    /\ SF_vars(pc[Worker] # "idle"
                /\ (Start(Worker, GuiCalls, {TRUE}) \/ Stop(Worker, GuiCalls)
                    \/ Ack(Worker)))

\* C23 -- bounded operations: every start and stop call that has begun
\* eventually returns a result, whatever the processes and the external
\* commands it runs do.
C23_CallsReturn ==
    (pc[Worker] # "idle") ~> (pc[Worker] = "done")

\* ========================================================== the catalog
\* A catalog the user has put into project_config.json.
edited_config ==
    [ python_textract |->
        [type |-> "backend", language |-> "python", default_port |-> 8000] ]

\* Mutant of load_config: the default catalog is used and written whether or
\* not project_config.json exists.
load_config_AlwaysDefault(t) ==
    /\ Quiet
    /\ pc[t] = "new"
    /\ config' = default_config
    /\ config_file' = ConfigFile(default_config)
    /\ Goto(t, "idle")
    /\ UNCHANGED <<osvars, processes_file, truncated, events, pre, last, raised>>
    /\ UNCHANGED <<call, processes, pids, child, to_remove, success, result,
                   report, stalled, probe, dual>>

\* ProjectManager.__init__ and load_config, lines 17-89: the catalog is read
\* from project_config.json; without the file the default catalog is used
\* and save_config writes it.  json.load gives back what json.dump wrote:
\* the catalog has string keys and string and integer values only.
load_config(t) ==
    /\ Quiet
    /\ pc[t] = "new"
    /\ IF config_file.exists
       THEN /\ config' = config_file.json
            /\ UNCHANGED config_file
       ELSE /\ config' = default_config
            /\ config_file' = ConfigFile(default_config)
    /\ Goto(t, "idle")
    /\ UNCHANGED <<osvars, processes_file, truncated, events, pre, last, raised>>
    /\ UNCHANGED <<call, processes, pids, child, to_remove, success, result,
                   report, stalled, probe, dual>>

\* main returns and the interpreter exits: the manager object is gone.  The
\* next command line constructs a new one.
Exit(t) ==
    /\ Idle(t)
    /\ config' = NoConfig
    /\ Goto(t, "new")
    /\ UNCHANGED <<osvars, processes_file, truncated, events, pre, last, raised>>
    /\ UNCHANGED <<call, processes, pids, child, to_remove, success, result,
                   report, config_file, stalled, probe, dual>>

\* Before the first command line: project_config.json is missing, or holds
\* the default catalog, or a catalog of the user.
CatalogInit ==
    /\ InitProcesses
    /\ pc = [t \in Threads |-> IF t = Main THEN "new" ELSE "idle"]
    /\ config = NoConfig
    /\ config_file \in {NoFile, ConfigFile(default_config), ConfigFile(edited_config)}
    /\ probe = NoProbe
    /\ dual = NoDual

CatalogCalls ==
    {<<"python_textract", "backend", <<>> >>,
     <<"python_blueprint_api", "backend", <<>> >>}

CatalogNext ==
    \/ load_config(Main)
    \/ Exit(Main)
    \/ Start(Main, CatalogCalls, {TRUE})
    \/ Stop(Main, CatalogCalls)
    \/ status(Main)
    \/ Ack(Main)
    \/ \E pid \in PIDs : ProcExit(pid)

\* Command lines one after the other, each constructing its manager.
CatalogSpec == CatalogInit /\ [][CatalogNext]_vars

\* C24 -- the catalog is immutable at runtime: a constructed manager holds
\* the catalog that is in project_config.json; the catalog in memory changes
\* only when a manager is constructed (or ends), never by start, stop or
\* status; the file is written only by a construction that finds no file,
\* and then with the default catalog; so every later construction loads the
\* same catalog.
C24_CatalogImmutable ==
    /\ [](pc[Main] # "new" => (config_file.exists /\ config = config_file.json))
    /\ [][ /\ config' # config => (pc[Main] = "new" \/ pc'[Main] = "new")
           /\ config_file' # config_file =>
                 /\ pc[Main] = "new" /\ pc'[Main] = "idle"
                 /\ ~config_file.exists
                 /\ config_file' = ConfigFile(default_config)
           /\ (config_file.exists /\ pc[Main] = "new" /\ pc'[Main] = "idle") =>
                 config' = config_file.json ]_vars

\* A start has succeeded under a catalog of the user that names another
\* default port than the default catalog, and the file still holds it.
C24_Witness ==
    /\ StartReturns(Main) /\ result[Main] = "Started"
    /\ call[Main].port = 8000 /\ call[Main].project_name = "python_textract"
    /\ config = edited_config
    /\ config_file = ConfigFile(edited_config)

\* ===================================================== AlreadyRunning
\* C25 -- AlreadyRunning is side-effect free: when a start returns
\* AlreadyRunning, the registry is what it was when the call was made, the
\* process registered under the key of the call has received no signal from
\* the call and is alive.
C25_AlreadyRunningNoEffect ==
    \A t \in Threads :
        (StartReturns(t) /\ result[t] = "AlreadyRunning") =>
            /\ ~truncated
            /\ processes_file = pre[t].file
            /\ CallKey(t) \in DOMAIN processes_file
            /\ ~Signalled(t, processes_file[CallKey(t)].pid)
            /\ processes_file[CallKey(t)].pid \in alive

\* A start has returned AlreadyRunning after its port reconciliation ran
\* with lsof available.
C25_Witness ==
    \E t \in Threads :
        /\ StartReturns(t) /\ result[t] = "AlreadyRunning"
        /\ lsofInstalled
        /\ processes_file[CallKey(t)].pid \in launched

\* ================================================ records of killed processes
\* C26 -- records follow the kills of the manager: when a start or a stop
\* returns and no process has ended of its own accord during the call, no
\* record in the registry names a process that the call has signalled and
\* that no longer exists.
C26_RecordsFollowKills ==
    \A t \in Threads :
        ((StartReturns(t) \/ StopReturns(t)) /\ ~truncated) =>
            \A k \in DOMAIN processes_file :
                LET pid == processes_file[k].pid
                IN (Signalled(t, pid) /\ pid \notin alive) =>
                      \E p \in PIDs : <<p, "exit">> \in events[t]

\* ================================================== stop beside a start
\* Two worker threads of the GUI (gui_manager.py lines 400-408 and 411-421):
\* one starts and stops python_textract on port 8000, the other starts it on
\* port 8001.
RaceCalls(t) ==
    IF t = "t1" THEN {<<"python_textract", "backend", <<8000>> >>}
    ELSE {<<"python_textract", "backend", <<8001>> >>}

RaceNext ==
    \/ \E t \in Threads : Start(t, RaceCalls(t), {TRUE})
    \/ Stop("t1", RaceCalls("t1"))
    \/ \E t \in Threads : Ack(t)

RaceSpec == Init /\ [][RaceNext]_vars

\* The keys a stop call names that are in the registry file.
StillRegistered(c) ==
    Matches(processes_file, c.project_name, c.component_type, c.port)

\* C27 -- removed records are not resurrected: after a stop has returned
\* success, and until the next call is made, the registry holds no record
\* of the keys the stop named, except for a key that a start in progress is
\* starting; a start for another key that was in progress during the stop
\* does not bring the record back.
C27_NoResurrection ==
    \A t \in Threads :
        (last[t].result = "Stopped" /\ ~truncated) =>
            \A k \in StillRegistered(last[t].call) :
                \E u \in Threads : call[u].action = "start" /\ CallKey(u) = k

\* ============================================================ PID reuse
\* The operating system hands a PID that has become free to a new process
\* that the manager did not start; it binds a free port, or none.  PIDs
\* come round slowly: this happens between two calls, not during one.
PidReuse(pid, port) ==
    /\ \A t \in Threads : pc[t] = "idle"
    /\ pid < nextPid
    /\ pid \notin alive
    /\ alive' = alive \cup {pid}
    /\ listen' = [listen EXCEPT ![pid] =
                    IF port # NoPort /\ lsof(port) = {} THEN port ELSE NoPort]
    /\ Disturbed
    /\ UNCHANGED <<protected, stubborn, nextPid, lsofInstalled, launched, elsewhere>>
    /\ UNCHANGED <<processes_file, truncated, events, raised>>
    /\ UNCHANGED locals

ReuseCalls == {<<"python_textract", "backend", <<8001>> >>}

ReuseNext ==
    \/ Start(Main, ReuseCalls, {TRUE})
    \/ Stop(Main, ReuseCalls)
    \/ Ack(Main)
    \/ \E pid \in PIDs : ProcExit(pid)
    \/ \E pid \in PIDs, port \in Ports \cup {NoPort} : PidReuse(pid, port)

\* One caller, on a machine whose PIDs come round again.
ReuseSpec == Init /\ [][ReuseNext]_vars

\* C28 -- stop signals only processes the manager launched: every signal a
\* stop call sends goes to a PID whose present process was spawned by the
\* manager; a process that has taken over the PID of a stale record is not
\* signalled.
C28_StopSignalsOwnOnly ==
    [][\A t \in Threads :
          call[t].action = "stop" =>
              \A e \in events'[t] \ events[t] :
                  e[2] \in Signals => e[1] \in launched]_vars

\* ======================================================= one port per call
\* main, line 349: every further argument of the command line is a port.
MultiCalls ==
    {<<"python_textract", "backend", ps>> :
        ps \in {<<>>, <<8000, 8001>>, <<8001, 8000>>}}

MultiNext ==
    \/ Start(Main, MultiCalls, {TRUE})
    \/ Stop(Main, MultiCalls)
    \/ Environment
    \/ Ack(Main)

\* The command line with several ports, one call after the other.
MultiSpec == Init /\ [][MultiNext]_vars

\* The one port the claim says a call acts on: the first of the list; for an
\* empty list the default port of the catalog (start) or every port (stop,
\* NoPort).
FirstPort(t) ==
    IF call[t].ports # <<>> THEN call[t].ports[1]
    ELSE IF call[t].action = "start"
         THEN default_config[call[t].project_name].default_port
         ELSE NoPort

DualUnchanged == UNCHANGED <<manager, config, config_file, stalled, probe>>

\* start_both_apis, lines 245-255: the two start routines are started, each
\* in its thread.
start_both_apis ==
    /\ dual.pc = "idle"
    /\ dual' = [dual EXCEPT !.pc = "join", !.at = [a \in APIs |-> "begin"]]
    /\ DualUnchanged

\* start_python_api lines 33-50, start_csharp_api lines 78-101: without the
\* directory (or, for C#, without the .NET SDK) the routine returns False;
\* otherwise Popen sets the process attribute; an exception of Popen is
\* caught and the routine returns False.
StartApi(a, ready, popen_ok) ==
    /\ dual.at[a] = "begin"
    /\ dual' = IF ready /\ popen_ok
               THEN [dual EXCEPT !.process[a] = "running", !.at[a] = "wait"]
               ELSE [dual EXCEPT !.ret[a] = "False", !.at[a] = "returned"]
    /\ DualUnchanged

\* The launched server ends (its port is taken, an import fails).
ApiExit(a) ==
    /\ dual.process[a] = "running"
    /\ dual' = [dual EXCEPT !.process[a] = "exited"]
    /\ DualUnchanged

\* Lines 55-69 and 106-121: one round of the waiting loop.  The GET of
\* /health answers 200 only while the server runs; on 200 the routine
\* returns True; after the last attempt it returns False.
HealthAttempt(a, status_code) ==
    /\ dual.at[a] = "wait"
    /\ status_code = 200 => dual.process[a] = "running"
    /\ dual' = IF status_code = 200
               THEN [dual EXCEPT !.ret[a] = "True", !.at[a] = "returned"]
               ELSE IF dual.attempt[a] + 1 >= MaxAttempts
               THEN [dual EXCEPT !.ret[a] = "False", !.at[a] = "returned",
                                 !.attempt[a] = @ + 1]
               ELSE [dual EXCEPT !.attempt[a] = @ + 1]
    /\ DualUnchanged

\* Lines 257-286: both threads are joined; an API counts as started when its
\* process attribute is not None; the call returns False only when neither
\* counts.
JoinBoth ==
    /\ dual.pc = "join"
    /\ \A a \in APIs : dual.at[a] = "returned"
    /\ LET ok == [a \in APIs |-> dual.process[a] # "none"]
       IN dual' = [dual EXCEPT !.pc = "returned", !.ok = ok,
                               !.returned = IF \E a \in APIs : ok[a]
                                            THEN "True" ELSE "False"]
    /\ DualUnchanged

DualNext ==
    \/ start_both_apis
    \/ \E a \in APIs, ready \in BOOLEAN, popen_ok \in BOOLEAN :
          StartApi(a, ready, popen_ok)
    \/ \E a \in APIs : ApiExit(a)
    \/ \E a \in APIs, status_code \in {200, 503} : HealthAttempt(a, status_code)
    \/ JoinBoth

\* One run of start_both_apis.py.
DualSpec == Init /\ [][DualNext]_vars

\* C30 -- the dual launcher reports truthfully: when start_both_apis has
\* returned, an API counts as started only if its start routine returned
\* True (its health check answered 200 within the attempts), and the call
\* has returned False when neither routine returned True.
C30_DualReportsTruthfully ==
    dual.pc = "returned" =>
        /\ \A a \in APIs : dual.ok[a] => dual.ret[a] = "True"
        /\ (\A a \in APIs : dual.ret[a] # "True") => dual.returned = "False"
====
